---------------------------- MODULE Spec2Model ----------------------------
(***************************************************************************)
(* A model of testool/src/statetest/yaml.rs: YamlStateTestBuilder, which   *)
(* expands an Ethereum general-state-test YAML document into StateTests.   *)
(*                                                                         *)
(* Strings of the document are sequences of one-character strings, so that *)
(* the scanners (trim, find, splitn, parse::<usize>) work on characters.   *)
(* A Yaml node is a record whose field y names the yaml_rust variant.      *)
(***************************************************************************)
EXTENDS Integers, Sequences, FiniteSets, TLC

(***************************************************************************)
(* Bounds of the model.                                                    *)
(***************************************************************************)
MaxData == 2
MaxGas == 2
MaxValue == 2
MaxExpects == 2
MaxRef == 2
MaxFixtures == 2
U256Bits == 4
MaxAddr == 16

(***************************************************************************)
(* Yaml nodes (yaml_rust::Yaml).                                           *)
(***************************************************************************)
BadValue == [y |-> "BadValue"]
YInt(n) == [y |-> "Integer", i |-> n]
YStr(chars) == [y |-> "String", s |-> chars]
YReal(chars) == [y |-> "Real", r |-> chars]
YArr(items) == [y |-> "Array", a |-> items]
\* A string scalar held as one String rather than as its characters.
YText(str) == [y |-> "String", t |-> str]
YNull == [y |-> "Null"]

is_badvalue(yaml) == yaml.y = "BadValue"
is_array(yaml) == yaml.y = "Array"
is_int(yaml) == yaml.y = "Integer"
\* The characters of a String.
Chars(str) == [p \in 1..Len(str) |-> SubSeq(str, p, p)]

\* The node with its string scalar as characters.
Unpack(yaml) == IF yaml.y = "String" /\ "t" \in DOMAIN yaml THEN YStr(Chars(yaml.t)) ELSE yaml

is_str(yaml) == yaml.y = "String"

(***************************************************************************)
(* Character-level helpers: str::trim, str::find, str::parse::<usize>.     *)
(***************************************************************************)
IsWhitespace(c) == c \in {" ", "\n", "\t"}

RECURSIVE TrimStart(_)
TrimStart(s) ==
    IF s # <<>> /\ IsWhitespace(Head(s)) THEN TrimStart(Tail(s)) ELSE s

RECURSIVE TrimEnd(_)
TrimEnd(s) ==
    IF s # <<>> /\ IsWhitespace(s[Len(s)])
    THEN TrimEnd(SubSeq(s, 1, Len(s) - 1))
    ELSE s

Trim(s) == TrimEnd(TrimStart(s))

\* str::find: the 1-based position of the first character in cs, 0 for None.
Find(s, cs) ==
    IF \E p \in 1..Len(s) : s[p] \in cs
    THEN CHOOSE p \in 1..Len(s) :
            s[p] \in cs /\ \A q \in 1..(p - 1) : s[q] \notin cs
    ELSE 0

Digits == <<"0", "1", "2", "3", "4", "5", "6", "7", "8", "9">>
IsDigit(c) == \E d \in 1..10 : Digits[d] = c
DigitValue(c) == (CHOOSE d \in 1..10 : Digits[d] = c) - 1

RECURSIVE DecimalValue(_)
DecimalValue(s) ==
    IF s = <<>> THEN 0
    ELSE 10 * DecimalValue(SubSeq(s, 1, Len(s) - 1)) + DigitValue(s[Len(s)])

\* str::parse::<usize>: an optional '+', then one digit or more; -1 for Err.
ParseUsize(s) ==
    LET body == IF s # <<>> /\ Head(s) = "+" THEN Tail(s) ELSE s
    IN  IF body # <<>> /\ \A p \in 1..Len(body) : IsDigit(body[p])
        THEN DecimalValue(body)
        ELSE -1

(***************************************************************************)
(* decompose_tags: a tagged string to a map tag -> value.  The result is   *)
(* [panic |-> BOOLEAN, tags |-> map]; panic is the expect() of the scan    *)
(* for the end of a tag.                                                   *)
(***************************************************************************)
EmptyMap == [k \in {} |-> <<>>]
Insert(map, k, v) == [x \in (DOMAIN map) \cup {k} |-> IF x = k THEN v ELSE map[x]]

YulTag == <<":", "y", "u", "l">>
SolidityTag == <<":", "s", "o", "l", "i", "d", "i", "t", "y">>
LabelTag == <<":", "l", "a", "b", "e", "l">>

RECURSIVE ScanTags(_, _)
ScanTags(it, tags) ==
    IF it = <<>> THEN [panic |-> FALSE, tags |-> tags]
    ELSE IF Head(it) = ":"
    THEN LET end == Find(it, {" ", "\n"})
         IN  IF end = 0 THEN [panic |-> TRUE, tags |-> tags]
             ELSE LET tag == SubSeq(it, 1, end - 1)
                      rest == SubSeq(it, end + 1, Len(it))
                      colon == Find(rest, {":"})
                      value_len ==
                          IF tag = YulTag \/ tag = SolidityTag THEN Len(rest)
                          ELSE IF colon = 0 THEN Len(rest) ELSE colon - 1
                  IN  ScanTags(SubSeq(rest, value_len + 1, Len(rest)),
                               Insert(tags, tag, Trim(SubSeq(rest, 1, value_len))))
    ELSE [panic |-> FALSE, tags |-> Insert(tags, <<>>, Trim(it))]

decompose_tags(expr) ==
    LET it == Trim(expr)
    IN  IF it = <<>>
        THEN [panic |-> FALSE, tags |-> Insert(EmptyMap, <<>>, <<>>)]
        ELSE ScanTags(it, EmptyMap)

(***************************************************************************)
(* Ref, Refs and parse_refs.  A usize is kept as the i64 of the same bit   *)
(* pattern: `as_int as usize` keeps the bits, and the code only compares   *)
(* an index for equality.                                                  *)
(***************************************************************************)
RefAny == [k |-> "Any"]
RefIndex(n) == [k |-> "Index", i |-> n]
RefLabel(l) == [k |-> "Label", l |-> l]

\* Mutant of contains_index: an empty Refs admits every index.
contains_index_or_empty(refs, idx) ==
    \/ refs = <<>>
    \/ \E p \in 1..Len(refs) :
          CASE refs[p].k = "Index" -> refs[p].i = idx
            [] refs[p].k = "Label" -> FALSE
            [] refs[p].k = "Any" -> TRUE

contains_index(refs, idx) ==
    \E p \in 1..Len(refs) :
        CASE refs[p].k = "Index" -> refs[p].i = idx
          [] refs[p].k = "Label" -> FALSE
          [] refs[p].k = "Any" -> TRUE

\* Mutant of contains_label: Ref::Any does not stand for a label.
contains_label_any_false(refs, lbl) ==
    \E p \in 1..Len(refs) :
        CASE refs[p].k = "Index" -> FALSE
          [] refs[p].k = "Label" -> refs[p].l = lbl
          [] refs[p].k = "Any" -> FALSE

contains_label(refs, lbl) ==
    \E p \in 1..Len(refs) :
        CASE refs[p].k = "Index" -> FALSE
          [] refs[p].k = "Label" -> refs[p].l = lbl
          [] refs[p].k = "Any" -> TRUE

RefsOk(refs) == [res |-> "Ok", refs |-> refs]
RefsErr == [res |-> "Err"]
RefsPanic == [res |-> "Panic"]

\* Mutant of RangeRefs: the range lo..hi, without hi.
RangeRefsExclusive(lo, hi) == [p \in 1..(IF hi > lo THEN hi - lo ELSE 0) |-> RefIndex(lo + p - 1)]

\* lo..=hi as a sequence of Ref::Index
RangeRefs(lo, hi) == [p \in 1..(IF hi >= lo THEN hi - lo + 1 ELSE 0) |-> RefIndex(lo + p - 1)]

\* One element of the selector list: the body of the for loop.
ParseRefElement(yaml) ==
    IF is_int(yaml)
    THEN IF yaml.i = -1 THEN RefsOk(<<RefAny>>) ELSE RefsOk(<<RefIndex(yaml.i)>>)
    ELSE IF is_str(yaml)
    THEN LET dt == decompose_tags(yaml.s)
         IN  IF dt.panic THEN RefsPanic
             ELSE IF LabelTag \in DOMAIN dt.tags
             THEN RefsOk(<<RefLabel(dt.tags[LabelTag])>>)
             ELSE IF \E p \in 1..Len(yaml.s) : yaml.s[p] = "-"
             THEN LET dash == Find(yaml.s, {"-"})
                      lo == ParseUsize(SubSeq(yaml.s, 1, dash - 1))
                      hi == ParseUsize(SubSeq(yaml.s, dash + 1, Len(yaml.s)))
                  IN  IF lo = -1 \/ hi = -1 THEN RefsErr
                      ELSE RefsOk(RangeRefs(lo, hi))
             ELSE RefsErr
    ELSE RefsErr

RECURSIVE ParseRefList(_, _)
ParseRefList(yamls, refs) ==
    IF yamls = <<>> THEN RefsOk(refs)
    ELSE LET r == ParseRefElement(Head(yamls))
         IN  IF r.res # "Ok" THEN r
             ELSE ParseRefList(Tail(yamls), refs \o r.refs)

parse_refs(yaml) ==
    IF is_badvalue(yaml) THEN RefsOk(<<RefAny>>)
    ELSE ParseRefList(IF is_array(yaml) THEN yaml.a ELSE <<yaml>>, <<>>)

(***************************************************************************)
(* Option and Result values.                                               *)
(***************************************************************************)
None == [some |-> FALSE]
Some(v) == [some |-> TRUE, v |-> v]
Ok(v) == [res |-> "Ok", v |-> v]
Err == [res |-> "Err"]
Panic == [res |-> "Panic"]

(***************************************************************************)
(* U256 and the primitive parsers.  U256 is modelled with U256Bits bits;   *)
(* its + panics on overflow (uint's panic_on_overflow), it never wraps.    *)
(***************************************************************************)
U256Modulus == 2 ^ U256Bits
DEFAULT_BASE_FEE == 10

\* parse::parse_u256 of a string: decimal digits.
ParseU256Str(s) ==
    IF s # <<>> /\ (\A p \in 1..Len(s) : IsDigit(s[p])) /\ DecimalValue(s) < U256Modulus
    THEN Ok(DecimalValue(s))
    ELSE Err

parse_u256(yaml) ==
    IF is_int(yaml) THEN Ok(yaml.i)
    ELSE IF is_str(yaml) THEN ParseU256Str(yaml.s)
    ELSE IF yaml.y = "Real" THEN ParseU256Str(yaml.r)
    ELSE Err

parse_u64(yaml) ==
    IF is_int(yaml) THEN Ok(yaml.i)
    ELSE IF is_str(yaml) THEN (IF ParseUsize(yaml.s) = -1 THEN Err ELSE Ok(ParseUsize(yaml.s)))
    ELSE Err

\* U256 + U256: the sum, or a panic on overflow.
U256AddWrapping(a, b) == Ok((a + b) % U256Modulus)
U256Add(a, b) == IF a + b >= U256Modulus THEN Panic ELSE Ok(a + b)

Min(a, b) == IF a <= b THEN a ELSE b

\* Lines 105-116: max_priority_fee_per_gas, max_fee_per_gas and gas_price.
GasPrice(gas_price_yaml, max_fee, max_prio, base_fee) ==
    LET direct == parse_u256(gas_price_yaml)
    IN  IF direct.res = "Ok" THEN direct
        ELSE IF ~max_fee.some \/ ~max_prio.some THEN Panic
        ELSE LET sum == U256Add(max_prio.v, base_fee)
             IN  IF sum.res # "Ok" THEN sum
                 ELSE Ok(Min(max_fee.v, sum.v))

OkOption(r) == IF r.res = "Ok" THEN Some(r.v) ELSE None

\* Result<Vec<_>> of mapping a parser over a list: the first failure, or all values.
RECURSIVE CollectResults(_, _)
CollectResults(rs, acc) ==
    IF rs = <<>> THEN Ok(acc)
    ELSE IF Head(rs).res # "Ok" THEN Head(rs)
    ELSE CollectResults(Tail(rs), Append(acc, Head(rs).v))

\* yaml.as_vec().context("as_vec")?: the items of a list, Err otherwise.
as_vec(yaml) == IF is_array(yaml) THEN Ok(yaml.a) ELSE Err

(***************************************************************************)
(* parse_calldata: the label of a calldata variant is the value of the     *)
(* :label tag of its string, its payload the value of the :raw tag.        *)
(***************************************************************************)
RawTag == <<":", "r", "a", "w">>

\* parse::parse_calldata of the data string and the raw access list.
ParseCalldataStr(chars, raw_access_list) ==
    LET dt == decompose_tags(chars)
    IN  IF dt.panic THEN Panic
        ELSE IF RawTag \notin DOMAIN dt.tags THEN Err
        ELSE Ok([label |-> IF LabelTag \in DOMAIN dt.tags
                           THEN Some(dt.tags[LabelTag]) ELSE None,
                 data |-> dt.tags[RawTag],
                 access_list |-> raw_access_list])

\* parse_raw_access_list: Some(items) of a list, None otherwise.
parse_raw_access_list(yaml) == IF is_array(yaml) THEN Some(yaml.a) ELSE None

parse_calldata(yaml) ==
    IF is_str(yaml) THEN ParseCalldataStr(yaml.s, None)
    ELSE IF yaml.y = "Hash"
    THEN IF is_str(yaml.data)
         THEN ParseCalldataStr(yaml.data.s, parse_raw_access_list(yaml.accessList))
         ELSE Err
    ELSE Err

\* transaction.data, transaction.gasLimit and transaction.value: as_vec,
\* then the map of the element parser, collected into one Result.
parse_data_s(yaml) ==
    LET items == as_vec(yaml)
    IN  IF items.res # "Ok" THEN items
        ELSE CollectResults([p \in 1..Len(items.v) |-> parse_calldata(items.v[p])], <<>>)

parse_gas_limit_s(yaml) ==
    LET items == as_vec(yaml)
    IN  IF items.res # "Ok" THEN items
        ELSE CollectResults([p \in 1..Len(items.v) |-> parse_u64(items.v[p])], <<>>)

parse_value_s(yaml) ==
    LET items == as_vec(yaml)
    IN  IF items.res # "Ok" THEN items
        ELSE CollectResults([p \in 1..Len(items.v) |-> parse_u256(items.v[p])], <<>>)

(***************************************************************************)
(* Addresses.  An Address, a hash and a byte string are modelled by the    *)
(* string of their lower-case hex digits, most significant first.          *)
(***************************************************************************)
\* The String of a sequence of characters.
RECURSIVE Join(_)
Join(chars) == IF chars = <<>> THEN "" ELSE Head(chars) \o Join(Tail(chars))

AddressLen == 40
I64HexLen == 16

HexDigits == <<"0", "1", "2", "3", "4", "5", "6", "7", "8", "9", "a", "b", "c", "d", "e", "f">>
UpperHexDigits == <<"A", "B", "C", "D", "E", "F">>

LowerHex ==
    [c \in {HexDigits[p] : p \in 1..16} |-> c]
    @@ [c \in {UpperHexDigits[p] : p \in 1..6} |->
            HexDigits[10 + (CHOOSE p \in 1..6 : UpperHexDigits[p] = c)]]

IsHexDigit(c) == c \in DOMAIN LowerHex

ToLowerHex(c) == LowerHex[c]

\* format!("{n}") of an i64.
RECURSIVE DecDigits(_)
DecDigits(n) ==
    IF n < 10 THEN <<Digits[n + 1]>> ELSE DecDigits(n \div 10) \o <<Digits[(n % 10) + 1]>>

FormatDecimal(n) == IF n < 0 THEN <<"-">> \o DecDigits(0 - n) ELSE DecDigits(n)

\* format!("{n:x}") of an i64: the hex digits of n, of its two's complement
\* when n is negative.
RECURSIVE HexOf(_)
HexOf(n) ==
    IF n < 16 THEN <<HexDigits[n + 1]>> ELSE HexOf(n \div 16) \o <<HexDigits[(n % 16) + 1]>>

RECURSIVE TwosComplementHex(_, _)
TwosComplementHex(n, k) ==
    IF k = 0 THEN <<>>
    ELSE TwosComplementHex(n \div 16, k - 1) \o <<HexDigits[(n % 16) + 1]>>

FormatHex(n) == IF n < 0 THEN TwosComplementHex(n, I64HexLen) ELSE HexOf(n)

\* The fill of {:0>40} and {:040x}: zeros on the left up to the width.
PadLeft(s, width) ==
    IF Len(s) >= width THEN s ELSE [p \in 1..(width - Len(s)) |-> "0"] \o s

\* hex::decode: the bytes of an even number of hex digits.
HexDecode(s) ==
    IF Len(s) % 2 = 0 /\ (\A p \in 1..Len(s) : IsHexDigit(s[p]))
    THEN Ok([p \in 1..Len(s) |-> ToLowerHex(s[p])])
    ELSE Err

\* Address::from_slice: a panic unless the slice holds 20 bytes.
AddressFromSlice(bytes) ==
    IF bytes.res # "Ok" THEN bytes
    ELSE IF Len(bytes.v) # AddressLen THEN Panic
    ELSE Ok(Join(bytes.v))

\* Address::from_str: 40 hex digits.
AddressFromStr(s) == IF Len(s) = AddressLen THEN AddressFromSlice(HexDecode(s)) ELSE Err

\* parse::parse_address of a string: the hex digits after an optional 0x.
ParseAddressStr(s) ==
    IF Len(s) >= 2 /\ s[1] = "0" /\ s[2] = "x"
    THEN AddressFromStr(SubSeq(s, 3, Len(s)))
    ELSE AddressFromStr(s)

\* Line 318: the address whose number is the integer.
parse_address_expected(as_i64) ==
    AddressFromSlice(HexDecode(PadLeft(FormatHex(as_i64), AddressLen)))

\* Line 326: the decimal digits of the integer read as hex digits.
parse_address_pre(as_i64) ==
    AddressFromSlice(HexDecode(PadLeft(FormatDecimal(as_i64), AddressLen)))

\* Mutant of parse_address: with expected addresses the integer is always
\* taken as a number, whether that address is expected or not.
parse_address_always_numeric(yaml, expected_addresses) ==
    IF is_str(yaml) THEN ParseAddressStr(yaml.s)
    ELSE IF is_int(yaml)
    THEN IF expected_addresses.some
         THEN parse_address_expected(yaml.i)
         ELSE parse_address_pre(yaml.i)
    ELSE IF yaml.y = "Real" THEN AddressFromStr(yaml.r)
    ELSE Err

\* Lines 316-327: the numeric address when it is an expected one, the address
\* of the decimal digits otherwise.
ExpectedOrPre(address, as_i64, expected_addresses) ==
    IF expected_addresses.some /\ address.res # "Ok" THEN address
    ELSE IF expected_addresses.some /\ address.v \in expected_addresses.v
    THEN address
    ELSE parse_address_pre(as_i64)

parse_address(yaml, expected_addresses) ==
    IF is_str(yaml) THEN ParseAddressStr(yaml.s)
    ELSE IF is_int(yaml)
    THEN ExpectedOrPre(IF expected_addresses.some
                       THEN parse_address_expected(yaml.i)
                       ELSE Err,
                       yaml.i, expected_addresses)
    ELSE IF yaml.y = "Real" THEN AddressFromStr(yaml.r)
    ELSE Err

(***************************************************************************)
(* parse_accounts: a mapping address -> account fields to a map            *)
(* Address -> AccountMatch.  A mapping node holds its entries in document  *)
(* order; an absent field is BadValue.                                     *)
(***************************************************************************)
YMap(entries) == [y |-> "Hash", kv |-> entries]
YAccount(yStorage, yBalance, yCode, yNonce) ==
    [y |-> "Hash", storage |-> yStorage, balance |-> yBalance, code |-> yCode, nonce |-> yNonce]

is_map(yaml) == yaml.y = "Hash" /\ "kv" \in DOMAIN yaml
is_account(yaml) == yaml.y = "Hash" /\ "balance" \in DOMAIN yaml

\* account["field"]: BadValue when the account is no mapping.
Field(account, name) == IF is_account(account) THEN account[name] ELSE BadValue

\* parse::parse_code of a string: :raw or 0x hex is passed through; the
\* other forms go to the compiler.
CodeOfTags(dt, chars) ==
    IF dt.panic THEN Panic
    ELSE IF RawTag \in DOMAIN dt.tags THEN Ok(Join(dt.tags[RawTag]))
    ELSE IF Len(chars) >= 2 /\ chars[1] = "0" /\ chars[2] = "x" THEN Ok(Join(chars))
    ELSE Err

ParseCodeStr(chars) == CodeOfTags(decompose_tags(chars), chars)

parse_code(yaml) ==
    IF is_str(yaml) THEN ParseCodeStr(yaml.s)
    ELSE IF is_int(yaml) THEN ParseCodeStr(<<"0", "x">> \o FormatHex(yaml.i))
    ELSE Err

\* An optional field: None when absent, the `?` of its parser otherwise.
OkSome(r) == IF r.res = "Ok" THEN Ok(Some(r.v)) ELSE r

OptionalU256(yaml) == IF is_badvalue(yaml) THEN Ok(None) ELSE OkSome(parse_u256(yaml))

OptionalCode(yaml) == IF is_badvalue(yaml) THEN Ok(None) ELSE OkSome(parse_code(yaml))

\* Lines 246-251: the storage of an account, slot -> value.
RECURSIVE StorageEntries(_, _)
StorageInsert(slot, value, kvs, storage) ==
    IF slot.res # "Ok" THEN slot
    ELSE IF value.res # "Ok" THEN value
    ELSE StorageEntries(kvs, Insert(storage, slot.v, value.v))

StorageEntries(kvs, storage) ==
    IF kvs = <<>> THEN Ok(storage)
    ELSE StorageInsert(parse_u256(Head(kvs)[1]), parse_u256(Head(kvs)[2]), Tail(kvs), storage)

ParseStorage(yaml) ==
    IF is_badvalue(yaml) THEN Ok(EmptyMap)
    ELSE IF ~is_map(yaml) THEN Err
    ELSE StorageEntries(yaml.kv, EmptyMap)

\* Lines 241-272: one entry of the mapping.
AccountMatch(storage, address, balance, code, nonce) ==
    IF storage.res # "Ok" THEN storage
    ELSE IF address.res # "Ok" THEN address
    ELSE IF balance.res # "Ok" THEN balance
    ELSE IF code.res # "Ok" THEN code
    ELSE IF nonce.res # "Ok" THEN nonce
    ELSE Ok([address |-> address.v, balance |-> balance.v, code |-> code.v,
             nonce |-> nonce.v, storage |-> storage.v])

ParseAccount(key, account, expected_addresses) ==
    AccountMatch(ParseStorage(Field(account, "storage")),
                 parse_address(Unpack(key), expected_addresses),
                 OptionalU256(Field(account, "balance")),
                 OptionalCode(Unpack(Field(account, "code"))),
                 OptionalU256(Field(account, "nonce")))

\* Line 264: accounts.insert(address, account), and the next entry.
RECURSIVE ParseAccountEntries(_, _, _)
InsertAccount(account, kvs, accounts, expected_addresses) ==
    IF account.res # "Ok" THEN account
    ELSE ParseAccountEntries(kvs, Insert(accounts, account.v.address, account.v),
                             expected_addresses)

ParseAccountEntries(kvs, accounts, expected_addresses) ==
    IF kvs = <<>> THEN Ok(accounts)
    ELSE InsertAccount(ParseAccount(Head(kvs)[1], Head(kvs)[2], expected_addresses),
                       Tail(kvs), accounts, expected_addresses)

parse_accounts(yaml, expected_addresses) ==
    IF ~is_map(yaml) THEN Err
    ELSE ParseAccountEntries(yaml.kv, EmptyMap, expected_addresses)

\* Line 79: AccountMatch -> Account; a pre-state account holds every field.
AccountTryInto(accounts) ==
    IF \E a \in DOMAIN accounts :
            ~accounts[a].balance.some \/ ~accounts[a].code.some \/ ~accounts[a].nonce.some
    THEN Panic
    ELSE Ok([a \in DOMAIN accounts |->
                [address |-> a, balance |-> accounts[a].balance.v, code |-> accounts[a].code.v,
                 nonce |-> accounts[a].nonce.v, storage |-> accounts[a].storage]])

\* Lines 76-80: the pre-state.
ParsePre(yaml) ==
    LET accounts == parse_accounts(yaml, None)
    IN  IF accounts.res # "Ok" THEN accounts ELSE AccountTryInto(accounts.v)

(***************************************************************************)
(* parse_hash, parse_bytes, parse_to_address and parse_env.                *)
(***************************************************************************)
HashLen == 64
SecretKeyLen == 64

\* parse::parse_hash and parse::parse_bytes of a string: hex digits after an
\* optional 0x, 64 of them for a hash.
StripHexPrefix(s) ==
    IF Len(s) >= 2 /\ s[1] = "0" /\ s[2] = "x" THEN SubSeq(s, 3, Len(s)) ELSE s

ParseHashStr(s) ==
    LET bytes == HexDecode(StripHexPrefix(s))
    IN  IF Len(StripHexPrefix(s)) # HashLen \/ bytes.res # "Ok" THEN Err
        ELSE Ok(Join(bytes.v))

parse_hash(yaml) == IF is_str(yaml) THEN ParseHashStr(yaml.s) ELSE Err

parse_bytes(yaml) == IF is_str(yaml) THEN HexDecode(StripHexPrefix(yaml.s)) ELSE Err

parse_to_address(yaml) ==
    IF is_str(yaml)
    THEN IF Trim(yaml.s) = <<>> THEN Ok(None)
         ELSE LET a == ParseAddressStr(yaml.s)
              IN  IF a.res = "Ok" THEN Ok(Some(a.v)) ELSE a
    ELSE Err

\* Line 121: SigningKey::from_slice(..)? and the address derived from the key.
SecretKeyToAddress(secret_key) ==
    IF Len(secret_key) = SecretKeyLen THEN Ok("address of " \o Join(secret_key)) ELSE Err

\* parse_env: current_base_fee takes the default when the field does not
\* parse; every other field is a `?`.
parse_env(yaml_env) ==
    LET fee == parse_u256(yaml_env.currentBaseFee)
        coinbase == parse_address(Unpack(yaml_env.currentCoinbase), None)
        difficulty == parse_u256(yaml_env.currentDifficulty)
        gas_limit == parse_u64(yaml_env.currentGasLimit)
        number == parse_u64(yaml_env.currentNumber)
        timestamp == parse_u64(yaml_env.currentTimestamp)
        hash == parse_hash(Unpack(yaml_env.previousHash))
    IN  IF coinbase.res # "Ok" THEN coinbase
        ELSE IF difficulty.res # "Ok" THEN difficulty
        ELSE IF gas_limit.res # "Ok" THEN gas_limit
        ELSE IF number.res # "Ok" THEN number
        ELSE IF timestamp.res # "Ok" THEN timestamp
        ELSE IF hash.res # "Ok" THEN hash
        ELSE Ok([current_base_fee |-> IF fee.res = "Ok" THEN fee.v ELSE DEFAULT_BASE_FEE,
                 current_coinbase |-> coinbase.v,
                 current_difficulty |-> difficulty.v,
                 current_gas_limit |-> gas_limit.v,
                 current_number |-> number.v,
                 current_timestamp |-> timestamp.v,
                 previous_hash |-> hash.v])

(***************************************************************************)
(* MainnetFork::in_network_range: whether one of the fork ranges admits    *)
(* the active network.                                                     *)
(***************************************************************************)
GeIstanbul == <<">", "=", "I", "s", "t", "a", "n", "b", "u", "l">>
Istanbul == <<"I", "s", "t", "a", "n", "b", "u", "l">>
AdmittedRanges == {GeIstanbul}

in_network_range(networks) == \E p \in 1..Len(networks) : networks[p] \in AdmittedRanges

(***************************************************************************)
(* The state of one load_yaml call.                                        *)
(*   doc        the document: its fixtures in document order               *)
(*   pc         the position in load_yaml                                  *)
(*   test_idx   1-based position of test_name in test_names                *)
(*   env .. gas_price, expects   the locals of the current fixture         *)
(*   tx_rest    its nonce, to, secret_key and from                         *)
(*   expect_idx 1-based position of the expect entry being parsed          *)
(*   idx        <<idx_data, idx_gas, idx_value>> of the expansion loops    *)
(*   tests      the vector of StateTests built so far                      *)
(*   ret        what load_yaml returned: Ok(tests), Err, Panic (the        *)
(*              unwinding of a panic), or Running                          *)
(***************************************************************************)
VARIABLES doc, pc, test_idx, env, pre, data_s, gas_limit_s, value_s,
          max_priority_fee_per_gas, max_fee_per_gas, gas_price, tx_rest,
          expects, expect_idx, idx, tests, ret

vars == <<doc, pc, test_idx, env, pre, data_s, gas_limit_s, value_s,
          max_priority_fee_per_gas, max_fee_per_gas, gas_price, tx_rest,
          expects, expect_idx, idx, tests, ret>>

fixture_locals == <<env, pre, data_s, gas_limit_s, value_s,
                    max_priority_fee_per_gas, max_fee_per_gas, gas_price, tx_rest>>

Running == [res |-> "Running"]

\* The state after construction, for a document d.
InitWith(d) ==
    /\ doc = d
    /\ pc = "fixture"
    /\ test_idx = 1
    /\ env = [current_base_fee |-> DEFAULT_BASE_FEE]
    /\ pre = EmptyMap
    /\ data_s = <<>>
    /\ gas_limit_s = <<>>
    /\ value_s = <<>>
    /\ max_priority_fee_per_gas = None
    /\ max_fee_per_gas = None
    /\ gas_price = 0
    /\ tx_rest = None
    /\ expects = <<>>
    /\ expect_idx = 1
    /\ idx = <<0, 0, 0>>
    /\ tests = <<>>
    /\ ret = Running

\* A return of load_yaml that is not Ok(tests): the `?` of an Err, or a panic.
Fail(r) ==
    /\ pc' = "done"
    /\ ret' = [res |-> r.res]

(***************************************************************************)
(* Lines 69-121: the head of the loop over test_names: env, the three      *)
(* variant lists and the fees of one fixture.                              *)
(***************************************************************************)
FixtureHead(yaml_test) ==
    LET e == parse_env(yaml_test.env)
        accounts == ParsePre(yaml_test.pre)
        tx == yaml_test.transaction
        ds == parse_data_s(tx.data)
        gs == parse_gas_limit_s(tx.gasLimit)
        vs == parse_value_s(tx.value)
        prio == OkOption(parse_u256(tx.maxPriorityFeePerGas))
        fee == OkOption(parse_u256(tx.maxFeePerGas))
        price == GasPrice(tx.gasPrice, fee, prio, e.v.current_base_fee)
        nonce == parse_u256(tx.nonce)
        to == parse_to_address(Unpack(tx.to))
        secret_key == parse_bytes(Unpack(tx.secretKey))
        from == SecretKeyToAddress(secret_key.v)
    IN  IF e.res # "Ok" THEN e
        ELSE IF accounts.res # "Ok" THEN accounts
        ELSE IF ds.res # "Ok" THEN ds
        ELSE IF gs.res # "Ok" THEN gs
        ELSE IF vs.res # "Ok" THEN vs
        ELSE IF price.res # "Ok" THEN price
        ELSE IF nonce.res # "Ok" THEN nonce
        ELSE IF to.res # "Ok" THEN to
        ELSE IF secret_key.res # "Ok" THEN secret_key
        ELSE IF from.res # "Ok" THEN from
        ELSE Ok([env |-> e.v, pre |-> accounts.v,
                 data_s |-> ds.v, gas_limit_s |-> gs.v, value_s |-> vs.v,
                 max_priority_fee_per_gas |-> prio, max_fee_per_gas |-> fee,
                 gas_price |-> price.v,
                 tx_rest |-> Some([nonce |-> nonce.v, to |-> to.v,
                                   secret_key |-> Join(secret_key.v), from |-> from.v])])

ParseFixture ==
    /\ pc = "fixture"
    /\ test_idx <= Len(doc)
    /\ \E h \in {FixtureHead(doc[test_idx])} :
           IF h.res # "Ok"
           THEN /\ Fail(h)
                /\ UNCHANGED <<fixture_locals, expects, expect_idx>>
           ELSE /\ env' = h.v.env
                /\ pre' = h.v.pre
                /\ tx_rest' = h.v.tx_rest
                /\ data_s' = h.v.data_s
                /\ gas_limit_s' = h.v.gas_limit_s
                /\ value_s' = h.v.value_s
                /\ max_priority_fee_per_gas' = h.v.max_priority_fee_per_gas
                /\ max_fee_per_gas' = h.v.max_fee_per_gas
                /\ gas_price' = h.v.gas_price
                /\ expects' = <<>>
                /\ expect_idx' = 1
                /\ pc' = "expect"
                /\ UNCHANGED ret
    /\ UNCHANGED <<doc, test_idx, idx, tests>>

(***************************************************************************)
(* Lines 125-159: one iteration of the loop over the expect entries.       *)
(***************************************************************************)
\* Lines 126-135: the network list; a panic when it is no list of strings.
ParseNetworks(yaml) ==
    IF ~is_array(yaml) \/ \E p \in 1..Len(yaml.a) : ~is_str(yaml.a[p]) THEN Panic
    ELSE Ok([p \in 1..Len(yaml.a) |-> yaml.a[p].s])

\* Mutant of ExceptionFlag: the flag asks every key to be admitted.
ExceptionFlagEveryKey(yaml) ==
    IF yaml.y # "Hash" THEN Ok(FALSE)
    ELSE IF \E p \in 1..Len(yaml.h) : ~is_str(yaml.h[p]) THEN Panic
    ELSE Ok(\A p \in 1..Len(yaml.h) : in_network_range(<<yaml.h[p].s>>))

\* Lines 137-146: the exception flag from the keys of expectException.
ExceptionFlag(yaml) ==
    IF yaml.y # "Hash" THEN Ok(FALSE)
    ELSE IF \E p \in 1..Len(yaml.h) : ~is_str(yaml.h[p]) THEN Panic
    ELSE Ok(\E p \in 1..Len(yaml.h) : in_network_range(<<yaml.h[p].s>>))

\* Mutant of Retained: every entry is pushed, whatever its network list.
RetainedAlways(networks) == TRUE

\* Line 156: whether the entry is pushed to expects.
Retained(networks) == in_network_range(networks)

\* The entry as pushed: (exception, data_refs, gas_refs, value_refs, result),
\* with retained telling whether line 156 pushes it.
ExpectEntry(expect) ==
    LET networks == ParseNetworks(expect.network)
        exception == ExceptionFlag(expect.expectException)
        data_refs == parse_refs(expect.indexes.data)
        gas_refs == parse_refs(expect.indexes.gas)
        value_refs == parse_refs(expect.indexes.value)
        result == parse_accounts(expect.result, Some(DOMAIN pre))
    IN  IF networks.res # "Ok" THEN networks
        ELSE IF exception.res # "Ok" THEN exception
        ELSE IF data_refs.res # "Ok" THEN data_refs
        ELSE IF gas_refs.res # "Ok" THEN gas_refs
        ELSE IF value_refs.res # "Ok" THEN value_refs
        ELSE IF result.res # "Ok" THEN result
        ELSE Ok([retained |-> Retained(networks.v),
                 entry |-> [exception |-> exception.v,
                            data_refs |-> data_refs.refs,
                            gas_refs |-> gas_refs.refs,
                            value_refs |-> value_refs.refs,
                            result |-> result.v]])

ParseExpect ==
    /\ pc = "expect"
    /\ expect_idx <= Len(doc[test_idx].expect)
    /\ \E e \in {ExpectEntry(doc[test_idx].expect[expect_idx])} :
           IF e.res # "Ok"
           THEN /\ Fail(e)
                /\ UNCHANGED <<expects, expect_idx>>
           ELSE /\ expects' = IF e.v.retained THEN Append(expects, e.v.entry) ELSE expects
                /\ expect_idx' = expect_idx + 1
                /\ UNCHANGED <<pc, ret>>
    /\ UNCHANGED <<doc, test_idx, fixture_locals, idx, tests>>

\* The loop over the expect entries ends; the expansion loops start.
ExpectsParsed ==
    /\ pc = "expect"
    /\ expect_idx > Len(doc[test_idx].expect)
    /\ pc' = "expand"
    /\ idx' = <<0, 0, 0>>
    /\ UNCHANGED <<doc, test_idx, fixture_locals, expects, expect_idx, tests, ret>>

(***************************************************************************)
(* Lines 163-213: the expansion data x gas x value.                        *)
(***************************************************************************)
\* Mutant of Admits: a labelled variant is admitted by its index as well.
AdmitsIndexFallback(e, calldata, idx_data, idx_gas, idx_value) ==
    /\ IF calldata.label.some
       THEN \/ contains_label(e.data_refs, calldata.label.v)
            \/ contains_index(e.data_refs, idx_data)
       ELSE contains_index(e.data_refs, idx_data)
    /\ contains_index(e.gas_refs, idx_gas)
    /\ contains_index(e.value_refs, idx_value)

\* Mutant of Admits: the check of value_refs (lines 183-185) is missing.
AdmitsNoValueCheck(e, calldata, idx_data, idx_gas, idx_value) ==
    /\ IF calldata.label.some
       THEN contains_label(e.data_refs, calldata.label.v)
       ELSE contains_index(e.data_refs, idx_data)
    /\ contains_index(e.gas_refs, idx_gas)

\* Lines 169-185: whether an entry of expects fulfills the pattern.
Admits(e, calldata, idx_data, idx_gas, idx_value) ==
    /\ IF calldata.label.some
       THEN contains_label(e.data_refs, calldata.label.v)
       ELSE contains_index(e.data_refs, idx_data)
    /\ contains_index(e.gas_refs, idx_gas)
    /\ contains_index(e.value_refs, idx_value)

\* Lines 190-192: the id of a StateTest.
TestId(test_name, calldata, idx_data, idx_gas, idx_value) ==
    LET data_label == IF calldata.label.some
                      THEN "(" \o Join(calldata.label.v) \o ")"
                      ELSE ""
    IN  Join(test_name) \o "_d" \o ToString(idx_data) \o data_label
            \o "_g" \o ToString(idx_gas) \o "_v" \o ToString(idx_value)

\* Lines 188-208: the StateTest built from an entry of expects.
NewStateTest(e, test_name, idx_data, idx_gas, idx_value) ==
    [id |-> TestId(test_name, data_s[idx_data + 1], idx_data, idx_gas, idx_value),
     env |-> env,
     pre |-> pre,
     result |-> e.result,
     from |-> tx_rest.v.from,
     secret_key |-> tx_rest.v.secret_key,
     to |-> tx_rest.v.to,
     gas_limit |-> gas_limit_s[idx_gas + 1],
     max_priority_fee_per_gas |-> max_priority_fee_per_gas,
     max_fee_per_gas |-> max_fee_per_gas,
     gas_price |-> gas_price,
     nonce |-> tx_rest.v.nonce,
     value |-> value_s[idx_value + 1],
     data |-> data_s[idx_data + 1].data,
     access_list |-> data_s[idx_data + 1].access_list,
     exception |-> e.exception]

\* Mutant of TripleTests: the break of line 209 is missing.
TripleTestsNoBreak(test_name, idx_data, idx_gas, idx_value) ==
    LET admitting == {p \in 1..Len(expects) :
                        Admits(expects[p], data_s[idx_data + 1], idx_data, idx_gas, idx_value)}
        RECURSIVE Each(_)
        Each(p) == IF p > Len(expects) THEN <<>>
                   ELSE (IF p \in admitting
                         THEN <<NewStateTest(expects[p], test_name, idx_data, idx_gas, idx_value)>>
                         ELSE <<>>) \o Each(p + 1)
    IN  Each(1)

\* Mutant of TripleTests: the last entry of expects that admits the triple.
TripleTestsLast(test_name, idx_data, idx_gas, idx_value) ==
    LET admitting == {p \in 1..Len(expects) :
                        Admits(expects[p], data_s[idx_data + 1], idx_data, idx_gas, idx_value)}
    IN  IF admitting = {} THEN <<>>
        ELSE LET last == CHOOSE p \in admitting : \A q \in admitting : p >= q
             IN  <<NewStateTest(expects[last], test_name, idx_data, idx_gas, idx_value)>>

\* Lines 167-210: the StateTests one triple adds: that of the first entry of
\* expects that admits it, and then the break.
TripleTests(test_name, idx_data, idx_gas, idx_value) ==
    LET admitting == {p \in 1..Len(expects) :
                        Admits(expects[p], data_s[idx_data + 1], idx_data, idx_gas, idx_value)}
    IN  IF admitting = {} THEN <<>>
        ELSE LET first == CHOOSE p \in admitting : \A q \in admitting : p <= q
             IN  <<NewStateTest(expects[first], test_name, idx_data, idx_gas, idx_value)>>

\* Mutant of NextTriple: the data loop is the innermost, the value loop the
\* outermost.
NextTripleDataInnermost(d, g, v) ==
    IF d + 1 < Len(data_s) THEN <<d + 1, g, v>>
    ELSE IF g + 1 < Len(gas_limit_s) THEN <<0, g + 1, v>>
    ELSE IF v + 1 < Len(value_s) THEN <<0, 0, v + 1>>
    ELSE <<Len(data_s), 0, 0>>

\* The triple after <<d, g, v>> in the order of the three nested loops.
NextTriple(d, g, v) ==
    IF v + 1 < Len(value_s) THEN <<d, g, v + 1>>
    ELSE IF g + 1 < Len(gas_limit_s) THEN <<d, g + 1, 0>>
    ELSE <<d + 1, 0, 0>>

HasTriples == Len(data_s) > 0 /\ Len(gas_limit_s) > 0 /\ Len(value_s) > 0

ExpansionDone == ~HasTriples \/ idx[1] >= Len(data_s)

\* One iteration of the innermost loop body.
ExpandTriple ==
    /\ pc = "expand"
    /\ HasTriples
    /\ idx[1] < Len(data_s)
    /\ tests' = tests \o TripleTests(doc[test_idx].name, idx[1], idx[2], idx[3])
    /\ idx' = NextTriple(idx[1], idx[2], idx[3])
    /\ UNCHANGED <<doc, pc, test_idx, fixture_locals, expects, expect_idx, ret>>

\* The three loops end: the next test_name.
NextFixture ==
    /\ pc = "expand"
    /\ ExpansionDone
    /\ test_idx' = test_idx + 1
    /\ pc' = "fixture"
    /\ UNCHANGED <<doc, fixture_locals, expects, expect_idx, idx, tests, ret>>

\* Line 216: Ok(tests).
Return ==
    /\ pc = "fixture"
    /\ test_idx > Len(doc)
    /\ pc' = "done"
    /\ ret' = [res |-> "Ok", tests |-> tests]
    /\ UNCHANGED <<doc, test_idx, fixture_locals, expects, expect_idx, idx, tests>>

Next == ParseFixture \/ ParseExpect \/ ExpectsParsed \/ ExpandTriple \/ NextFixture \/ Return

(***************************************************************************)
(* Documents.  A fixture is the record of the sections load_yaml reads; an *)
(* absent field is BadValue, as yaml_rust's index of a missing key.        *)
(***************************************************************************)
\* The fields of the test TEMPLATE (lines 532-571) that the fixtures share;
\* the balances 1000000000000 and 1000000000001 are written 1000000 and 1000001.
Coinbase == "2adc25665018aa1fe0e6bc666dac8fc2697ff9ba"
PreviousHash == "5e20a0453cecd065ea59c37ac63e079ee08998b6045136a8ce6635c7912ec0b6"
ToAddress == "cccccccccccccccccccccccccccccccccccccccc"
SecretKey == "45a915e4d060149eb4365960e6a7a45f334393093061116b197e3240065ff2d8"
PreAddress == "a94f5374fce5edbc8e2a8697c15331677e6ebf0b"
PreCode == ":raw 0x600100"

TemplatePre ==
    YMap(<<<<YText(ToAddress), YAccount(YMap(<<<<YInt(0), YInt(1)>>>>), YInt(1000000), YText(PreCode), YStr(<<"0">>))>>,
           <<YText(PreAddress), YAccount(YMap(<<>>), YInt(1000000), YStr(<<"0", "x">>), YStr(<<"0">>))>>>>)

Fixture(name, yBaseFee, yData, yGasLimit, yValue, yGasPrice, yMaxFee, yMaxPrio, yExpect) ==
    [name |-> name,
     env |-> [currentBaseFee |-> yBaseFee,
              currentCoinbase |-> YText(Coinbase),
              currentDifficulty |-> YInt(131072),
              currentGasLimit |-> YStr(<<"1">>),
              currentNumber |-> YInt(1),
              currentTimestamp |-> YInt(1000),
              previousHash |-> YText(PreviousHash)],
     pre |-> TemplatePre,
     transaction |-> [data |-> yData, gasLimit |-> yGasLimit, value |-> yValue,
                      gasPrice |-> yGasPrice, maxFeePerGas |-> yMaxFee,
                      maxPriorityFeePerGas |-> yMaxPrio,
                      nonce |-> YStr(<<"0">>),
                      to |-> YText(ToAddress),
                      secretKey |-> YText(SecretKey)],
     expect |-> yExpect]

Expect(yData, yGas, yValue, yNetwork, yException, yResult) ==
    [indexes |-> [data |-> yData, gas |-> yGas, value |-> yValue],
     network |-> yNetwork,
     expectException |-> yException,
     result |-> yResult]

YHash(keys) == [y |-> "Hash", h |-> keys]
YCalldata(yData, yAccessList) == [y |-> "Hash", data |-> yData, accessList |-> yAccessList]

SeqsUpTo(S, n) == UNION {[1..k -> S] : k \in 0..n}
NonEmptySeqsUpTo(S, n) == UNION {[1..k -> S] : k \in 1..n}

\* A result of one account, the recipient, of balance n.
ResultBalance(n) == YMap(<<<<YText(ToAddress), YAccount(BadValue, YInt(n), BadValue, BadValue)>>>>)

\* The expect entries es, the result of the p-th being the balance p.
Numbered(es) == [p \in 1..Len(es) |-> [es[p] EXCEPT !.result = ResultBalance(p)]]

\* Strings of the test TEMPLATE (lines 532-620).
Arith == <<"a", "r", "i", "t", "h">>
RawData0 == <<":", "r", "a", "w", " ", "0", "x", "0", "0">>
LabelledData1 == <<":", "l", "a", "b", "e", "l", " ", "d", "a", "t", "a", "1", " ", ":", "r", "a", "w", " ", "0", "x", "0", "1">>
LabelData1 == <<":", "l", "a", "b", "e", "l", " ", "d", "a", "t", "a", "1">>
Data1 == <<"d", "a", "t", "a", "1">>
GasPrice10 == <<"1", "0">>

NetworkAdmitted == YArr(<<YStr(GeIstanbul)>>)
NetworkNotAdmitted == YArr(<<YStr(Istanbul)>>)
NoException == BadValue
ExceptionAdmitted == YHash(<<YStr(GeIstanbul)>>)
ExceptionNotAdmitted == YHash(<<YStr(Istanbul)>>)

\* gasLimit and value lists of n variants.
IntList(n) == YArr([p \in 1..n |-> YInt(p)])

(***************************************************************************)
(* Spec: one fixture, its calldata variants labelled or not, its gas limit *)
(* and value lists of the shortest and the longest length, its expect      *)
(* entries drawn from ExpectChoices.                                       *)
(***************************************************************************)
DataChoices == {YStr(RawData0), YStr(LabelledData1)}

ExpectChoices ==
    {Expect(BadValue, BadValue, YInt(-1), NetworkAdmitted, NoException, ResultBalance(0)),
     Expect(YInt(1), BadValue, YInt(-1), NetworkAdmitted, NoException, ResultBalance(0)),
     Expect(YStr(LabelData1), BadValue, YInt(-1), NetworkAdmitted, ExceptionNotAdmitted, ResultBalance(0)),
     Expect(BadValue, YInt(1), YInt(0), NetworkAdmitted, NoException, ResultBalance(0)),
     Expect(BadValue, BadValue, BadValue, NetworkAdmitted, ExceptionAdmitted, ResultBalance(0)),
     Expect(BadValue, BadValue, BadValue, NetworkNotAdmitted, ExceptionAdmitted, ResultBalance(0))}

Init ==
    \E ds \in NonEmptySeqsUpTo(DataChoices, MaxData) :
    \E g \in {1, MaxGas} :
    \E v \in {1, MaxValue} :
    \E es \in SeqsUpTo(ExpectChoices, MaxExpects) :
        InitWith(<<Fixture(Arith, BadValue, YArr(ds), IntList(g), IntList(v),
                           YStr(GasPrice10), BadValue, BadValue, Numbered(es))>>)

Spec == Init /\ [][Next]_vars

(***************************************************************************)
(* SpecRefs: the selector fields of the expect entries drawn from the      *)
(* shapes of RefYamls; three calldata variants, the last two labelled.     *)
(***************************************************************************)
RECURSIVE Dec(_)
Dec(n) == IF n < 10 THEN <<Digits[n + 1]>> ELSE Dec(n \div 10) \o <<Digits[(n % 10) + 1]>>

RangeStr(lo, hi) == Dec(lo) \o <<"-">> \o Dec(hi)
IndexList(lo, hi) == [p \in 1..(IF hi >= lo THEN hi - lo + 1 ELSE 0) |-> YInt(lo + p - 1)]

LabelledData2 == <<":", "l", "a", "b", "e", "l", " ", "d", "a", "t", "a", "2", " ", ":", "r", "a", "w", " ", "0", "x", "0", "2">>
LabelData2 == <<":", "l", "a", "b", "e", "l", " ", "d", "a", "t", "a", "2">>
Data2 == <<"d", "a", "t", "a", "2">>

RangeYamls == {YStr(RangeStr(lo, hi)) : lo \in 0..MaxRef, hi \in 0..MaxRef}
ListYamls == {YArr(IndexList(lo, hi)) : lo \in 0..MaxRef, hi \in 0..MaxRef}

WellFormedRefYamls ==
    {BadValue} \cup {YInt(n) : n \in (-2)..MaxRef} \cup RangeYamls \cup ListYamls
    \cup {YStr(LabelData1), YStr(LabelData2), YStr(LabelledData1),
          YArr(<<YInt(1), YStr(LabelData2)>>),
          YArr(<<YStr(LabelData1), YInt(-1)>>)}

MalformedRefYamls ==
    {YStr(<<"a", "b", "c">>), YStr(<<"1", "-", "x">>), YStr(<<"-", "1">>), YStr(<<>>), YStr(<<":", "r", "a", "w", " ", "0", "x", "0", "1">>),
     YStr(<<":", "x">>), YStr(<<":", "l", "a", "b", "e", "l">>), YStr(<<":", "l", "a", "b", "e", "l", " ", "d", "a", "t", "a", "1", " ", ":", "x">>),
     YNull, YReal(<<"1", ".", "5">>), YArr(<<YArr(<<YInt(0)>>)>>),
     YArr(<<YInt(0), YStr(<<"a", "b", "c">>)>>), YArr(<<YInt(0), YNull>>)}

RefYamls == WellFormedRefYamls \cup MalformedRefYamls

RefsFixture(yExpect) ==
    Fixture(Arith, BadValue,
            YArr(<<YStr(RawData0), YStr(LabelledData1), YStr(LabelledData2)>>),
            IntList(MaxGas), IntList(MaxValue),
            YStr(GasPrice10), BadValue, BadValue, Numbered(yExpect))

RefsExpect(yData, yGas, yValue) ==
    Expect(yData, yGas, yValue, NetworkAdmitted, NoException, ResultBalance(0))

\* Two entries with a data selector each, or one entry with one selector.
InitRefs ==
    \E y1 \in RefYamls :
    \E y2 \in RefYamls :
    \E es \in {<<RefsExpect(y1, BadValue, BadValue), RefsExpect(y2, BadValue, BadValue)>>,
                <<RefsExpect(y1, BadValue, BadValue)>>,
                <<RefsExpect(BadValue, y1, BadValue)>>,
                <<RefsExpect(BadValue, BadValue, y1)>>} :
        InitWith(<<RefsFixture(es)>>)

SpecRefs == InitRefs /\ [][Next]_vars

(***************************************************************************)
(* SpecArith: the fixture of the test TEMPLATE (lines 532-620), with       *)
(* res_exception false or true, its four expect entries in any order.      *)
(***************************************************************************)
TemplateAccessList == YArr(<<"0xF00000000000000000000000000000000000F101">>)

TemplateExpects(res_exception) ==
    <<Expect(YStr(LabelData1), YInt(1), YInt(1), NetworkAdmitted, NoException, ResultBalance(10)),
      Expect(YInt(-1), YInt(1), YInt(-1), NetworkAdmitted, NoException, ResultBalance(20)),
      Expect(YInt(-1), YInt(-1), YInt(1), NetworkAdmitted, NoException, ResultBalance(30)),
      Expect(YInt(-1), YInt(-1), YInt(-1), NetworkAdmitted,
             IF res_exception THEN ExceptionAdmitted ELSE ExceptionNotAdmitted,
             YMap(<<<<YText(ToAddress),
                      YAccount(YMap(<<<<YInt(0), YInt(1)>>>>), YInt(1000001),
                               YText(PreCode), YInt(0))>>>>))>>

TemplateFixture(yExpect) ==
    Fixture(Arith, BadValue,
            YArr(<<YStr(RawData0), YCalldata(YStr(LabelledData1), TemplateAccessList)>>),
            YArr(<<YStr(<<"8", "0", "0", "0", "0", "0", "0", "0">>), YStr(<<"8", "0", "0", "0", "0", "0", "0", "1">>)>>),
            YArr(<<YStr(<<"1">>), YStr(<<"2">>)>>),
            YStr(GasPrice10), BadValue, BadValue, yExpect)

TemplateDoc(res_exception) == <<TemplateFixture(TemplateExpects(res_exception))>>

InitArith ==
    \E x \in BOOLEAN :
    \E order \in [1..4 -> 1..4] :
        InitWith(<<TemplateFixture([p \in 1..4 |-> TemplateExpects(x)[order[p]]])>>)

SpecArith == InitArith /\ [][Next]_vars

(***************************************************************************)
(* SpecIds: documents of one fixture or more; fixture names and calldata   *)
(* labels that hold the characters of an id.                               *)
(***************************************************************************)
NameChoices == {<<"a">>, <<"b">>, <<"a", "_", "d", "0", "(", "x", ")", "_", "g", "0", "_", "v", "0">>}
IdDataChoices ==
    {YStr(RawData0), YStr(<<":", "l", "a", "b", "e", "l", " ", "y", " ", ":", "r", "a", "w", " ", "0", "x", "0", "0">>), YStr(<<":", "l", "a", "b", "e", "l", " ", "x", ")", "_", "g", "0", "_", "v", "0", "_", "d", "0", "(", "y", " ", ":", "r", "a", "w", " ", "0", "x", "0", "0">>)}

CatchAll == Expect(BadValue, BadValue, BadValue, NetworkAdmitted, NoException, ResultBalance(0))

\* The keys of a mapping are distinct.
NameLists ==
    {ns \in NonEmptySeqsUpTo(NameChoices, MaxFixtures) :
        \A p \in 1..Len(ns) : \A q \in 1..Len(ns) : p # q => ns[p] # ns[q]}

InitIds ==
    \E ns \in NameLists :
    \E dss \in [1..Len(ns) -> NonEmptySeqsUpTo(IdDataChoices, MaxData)] :
        InitWith([p \in 1..Len(ns) |->
                    Fixture(ns[p], BadValue, YArr(dss[p]), IntList(1), IntList(1),
                            YStr(GasPrice10), BadValue, BadValue, <<CatchAll>>)])

SpecIds == InitIds /\ [][Next]_vars

(***************************************************************************)
(* SpecFees: one fixture of one triple and a match-any expectation; the    *)
(* fee fields and the base fee absent, malformed or any U256.              *)
(***************************************************************************)
U256Yamls == {BadValue} \cup {YInt(n) : n \in 0..(U256Modulus - 1)}
BaseFeeYamls == {BadValue, YNull, YInt(0), YInt(1), YInt(U256Modulus - 1)}
GasPriceYamls == {BadValue, YNull, YStr(<<"x">>), YStr(GasPrice10), YInt(3)}
FeeYamls == U256Yamls \cup {YNull}

InitFees ==
    \E base \in BaseFeeYamls :
    \E price \in GasPriceYamls :
    \E fee \in FeeYamls :
    \E prio \in FeeYamls :
        InitWith(<<Fixture(Arith, base, YArr(<<YStr(RawData0)>>), IntList(1), IntList(1),
                           price, fee, prio, <<CatchAll>>)>>)

SpecFees == InitFees /\ [][Next]_vars

(***************************************************************************)
(* SpecExpect: one fixture of two calldata variants, one labelled; the     *)
(* network list, the expectException mapping and the data selector of its  *)
(* expect entries in every combination of ExpectFields.                    *)
(***************************************************************************)
NetworkMixed == YArr(<<YStr(Istanbul), YStr(GeIstanbul)>>)
ExceptionMixed == YHash(<<YStr(Istanbul), YStr(GeIstanbul)>>)
ExceptionEmpty == YHash(<<>>)

NetworkChoices == {NetworkAdmitted, NetworkNotAdmitted, NetworkMixed}
ExceptionChoices ==
    {NoException, ExceptionEmpty, ExceptionAdmitted, ExceptionNotAdmitted, ExceptionMixed}
SelectorChoices == {BadValue, YStr(LabelData1)}

InitExpect ==
    \E ns \in SeqsUpTo(NetworkChoices, MaxExpects) :
    \E xs \in [1..Len(ns) -> ExceptionChoices] :
    \E ss \in [1..Len(ns) -> SelectorChoices] :
        InitWith(<<Fixture(Arith, BadValue,
                           YArr(<<YStr(RawData0), YStr(LabelledData1)>>),
                           IntList(1), IntList(1),
                           YStr(GasPrice10), BadValue, BadValue,
                           Numbered([p \in 1..Len(ns) |->
                                        Expect(ss[p], BadValue, BadValue, ns[p], xs[p],
                                               ResultBalance(0))]))>>)

SpecExpect == InitExpect /\ [][Next]_vars

(***************************************************************************)
(* SpecAddr: one fixture of one triple and a match-any expectation; the    *)
(* keys of two pre-state accounts are integers up to MaxAddr or the hex    *)
(* string of the address ten, the key of the result account an integer.    *)
(***************************************************************************)
AddressTen == "000000000000000000000000000000000000000a"

PreKeyChoices == {YInt(n) : n \in 0..MaxAddr} \cup {YText(AddressTen)}
ResultKeyChoices == {YInt(n) : n \in (-1)..MaxAddr}

PreAccount == YAccount(BadValue, YInt(1), YStr(<<"0", "x">>), YInt(0))
ResultAccount == YAccount(BadValue, YInt(1), BadValue, BadValue)

InitAddr ==
    \E a \in PreKeyChoices :
    \E b \in PreKeyChoices :
    \E r \in ResultKeyChoices :
        InitWith(<<[Fixture(Arith, BadValue, YArr(<<YStr(RawData0)>>), IntList(1), IntList(1),
                            YStr(GasPrice10), BadValue, BadValue,
                            <<Expect(BadValue, BadValue, BadValue, NetworkAdmitted, NoException,
                                     YMap(<<<<r, ResultAccount>>>>))>>)
                    EXCEPT !.pre = YMap(<<<<a, PreAccount>>, <<b, PreAccount>>>>)]>>)

SpecAddr == InitAddr /\ [][Next]_vars

(***************************************************************************)
(* SpecMalformed: one fixture of one triple; its expect entries are well   *)
(* formed or malformed in one field, under a network list that is          *)
(* admitted or not.                                                        *)
(***************************************************************************)
NotAReference == YStr(<<"a", "b", "c">>)
BadResult == YMap(<<<<YNull, ResultAccount>>>>)

WellFormedEntries ==
    {Expect(BadValue, BadValue, BadValue, n, NoException, ResultBalance(0)) :
        n \in {NetworkAdmitted, NetworkNotAdmitted}}

MalformedEntries ==
    {Expect(NotAReference, BadValue, BadValue, n, NoException, ResultBalance(0)) :
        n \in {NetworkAdmitted, NetworkNotAdmitted}}
    \cup {Expect(BadValue, YNull, BadValue, n, NoException, ResultBalance(0)) :
        n \in {NetworkAdmitted, NetworkNotAdmitted}}
    \cup {Expect(BadValue, BadValue, YReal(<<"1", ".", "5">>), n, NoException, ResultBalance(0)) :
        n \in {NetworkAdmitted, NetworkNotAdmitted}}
    \cup {Expect(BadValue, BadValue, BadValue, n, NoException, BadResult) :
        n \in {NetworkAdmitted, NetworkNotAdmitted}}
    \cup {Expect(BadValue, BadValue, BadValue, n, NoException, ResultBalance(0)) :
        n \in {BadValue, YStr(GeIstanbul)}}

InitMalformed ==
    \E es \in SeqsUpTo(WellFormedEntries \cup MalformedEntries, MaxExpects) :
        InitWith(<<Fixture(Arith, BadValue, YArr(<<YStr(RawData0)>>), IntList(1), IntList(1),
                           YStr(GasPrice10), BadValue, BadValue, es)>>)

SpecMalformed == InitMalformed /\ [][Next]_vars

(***************************************************************************)
(* SpecTags: decompose_tags applied to one string, the concatenation of at *)
(* most MaxTokens tokens.  doc holds the string, ret the returned map.     *)
(***************************************************************************)
MaxTokens == 4

TagTokens == {YulTag, SolidityTag, RawTag, LabelTag,
              <<" ">>, <<"\n">>, <<":">>, <<"a">>, <<" ", "a", " ">>,
              <<" ", "0", "x", "1">>}

RECURSIVE Concat(_)
Concat(ts) == IF ts = <<>> THEN <<>> ELSE Head(ts) \o Concat(Tail(ts))

InitTags ==
    /\ \E ts \in SeqsUpTo(TagTokens, MaxTokens) : doc = Concat(ts)
    /\ pc = "decompose_tags"
    /\ test_idx = 1
    /\ env = [current_base_fee |-> DEFAULT_BASE_FEE]
    /\ pre = EmptyMap
    /\ data_s = <<>>
    /\ gas_limit_s = <<>>
    /\ value_s = <<>>
    /\ max_priority_fee_per_gas = None
    /\ max_fee_per_gas = None
    /\ gas_price = 0
    /\ tx_rest = None
    /\ expects = <<>>
    /\ expect_idx = 1
    /\ idx = <<0, 0, 0>>
    /\ tests = <<>>
    /\ ret = Running

DecomposeTags ==
    /\ pc = "decompose_tags"
    /\ pc' = "done"
    /\ \E dt \in {decompose_tags(doc)} :
           ret' = IF dt.panic THEN Panic ELSE Ok(dt.tags)
    /\ UNCHANGED <<doc, test_idx, fixture_locals, expects, expect_idx, idx, tests>>

NextTags == DecomposeTags

SpecTags == InitTags /\ [][NextTags]_vars

(***************************************************************************)
(* SpecOrder: one fixture or more, named a and b in either order; each has *)
(* unlabelled calldata variants, gas limits and values, one or the most of *)
(* each, and expect entries that admit all of its triples or some.         *)
(***************************************************************************)
OrderNames ==
    {ns \in NonEmptySeqsUpTo({<<"a">>, <<"b">>}, MaxFixtures) :
        \A p \in 1..Len(ns) : \A q \in 1..Len(ns) : p # q => ns[p] # ns[q]}

OrderExpects ==
    {<<CatchAll>>,
     <<Expect(YInt(1), BadValue, BadValue, NetworkAdmitted, NoException, ResultBalance(0))>>,
     <<Expect(BadValue, YInt(1), BadValue, NetworkAdmitted, NoException, ResultBalance(0))>>,
     <<Expect(BadValue, BadValue, YInt(0), NetworkAdmitted, NoException, ResultBalance(0)),
       Expect(YInt(0), BadValue, BadValue, NetworkAdmitted, NoException, ResultBalance(1))>>}

OrderShapes == {1, MaxData} \X {1, MaxGas} \X {1, MaxValue} \X OrderExpects

InitOrder ==
    \E ns \in OrderNames :
    \E shape \in [1..Len(ns) -> OrderShapes] :
        InitWith([p \in 1..Len(ns) |->
                    Fixture(ns[p], BadValue,
                            YArr([d \in 1..shape[p][1] |-> YStr(RawData0)]),
                            IntList(shape[p][2]), IntList(shape[p][3]),
                            YStr(GasPrice10), BadValue, BadValue, shape[p][4])])

SpecOrder == InitOrder /\ [][Next]_vars

(***************************************************************************)
(* What the claims speak of, for the fixture expanded last: its triples,   *)
(* its retained expectations (expects), and admission as the               *)
(* specification words it, read off the selector sets.                     *)
(***************************************************************************)
Returned == pc = "done" /\ ret.res = "Ok"

Triples ==
    (0..(Len(data_s) - 1)) \X (0..(Len(gas_limit_s) - 1)) \X (0..(Len(value_s) - 1))

HoldsAny(refs) == \E p \in 1..Len(refs) : refs[p] = RefAny
HoldsIndex(refs, n) == \E p \in 1..Len(refs) : refs[p] = RefIndex(n)
HoldsLabel(refs, l) == \E p \in 1..Len(refs) : refs[p] = RefLabel(l)

DataAdmitted(refs, calldata, idx_data) ==
    IF calldata.label.some
    THEN HoldsAny(refs) \/ HoldsLabel(refs, calldata.label.v)
    ELSE HoldsAny(refs) \/ HoldsIndex(refs, idx_data)

IndexAdmitted(refs, n) == HoldsAny(refs) \/ HoldsIndex(refs, n)

\* The retained expectations that admit the triple t, by position in expects.
Admitting(t) ==
    {p \in 1..Len(expects) :
        /\ DataAdmitted(expects[p].data_refs, data_s[t[1] + 1], t[1])
        /\ IndexAdmitted(expects[p].gas_refs, t[2])
        /\ IndexAdmitted(expects[p].value_refs, t[3])}

First(S) == CHOOSE p \in S : \A q \in S : p <= q

\* The StateTests returned for the triple t of the fixture named name.
Emitted(name, t) ==
    {k \in 1..Len(ret.tests) :
        ret.tests[k].id = TestId(name, data_s[t[1] + 1], t[1], t[2], t[3])}

(***************************************************************************)
(* C1: when two or more retained expectations admit a triple, exactly one  *)
(* StateTest is returned for it, and it carries the result and the         *)
(* exception flag of the first of them in document order.                  *)
(***************************************************************************)
C1_FirstAdmittingWins ==
    Returned =>
        \A t \in Triples :
            Cardinality(Admitting(t)) >= 2 =>
                /\ Cardinality(Emitted(doc[1].name, t)) = 1
                /\ \A k \in Emitted(doc[1].name, t) :
                      /\ ret.tests[k].result = expects[First(Admitting(t))].result
                      /\ ret.tests[k].exception = expects[First(Admitting(t))].exception

\* A triple admitted by two expectations whose exception flags differ was expanded.
C1_Witness ==
    /\ Returned
    /\ \E t \in Triples :
          /\ Cardinality(Admitting(t)) >= 2
          /\ \E p \in Admitting(t) :
                expects[p].exception # expects[First(Admitting(t))].exception

(***************************************************************************)
(* C2: a fixture with D calldata, G gas and V value variants and a         *)
(* retained expectation whose three selector sets are all match-any        *)
(* returns exactly D*G*V StateTests, one for each triple.                  *)
(***************************************************************************)
AllAny(e) == HoldsAny(e.data_refs) /\ HoldsAny(e.gas_refs) /\ HoldsAny(e.value_refs)

C2_FullProduct ==
    (Returned /\ \E p \in 1..Len(expects) : AllAny(expects[p])) =>
        /\ Len(ret.tests) = Len(doc[1].transaction.data.a)
                              * Len(doc[1].transaction.gasLimit.a)
                              * Len(doc[1].transaction.value.a)
        /\ \A t \in Triples : Cardinality(Emitted(doc[1].name, t)) = 1

\* A full product with a labelled and an unlabelled variant, the match-any
\* expectation not being the first.
C2_Witness ==
    /\ Returned
    /\ Len(ret.tests) = MaxData * MaxGas * MaxValue
    /\ \E d \in 1..Len(data_s) : data_s[d].label.some
    /\ \E d \in 1..Len(data_s) : ~data_s[d].label.some
    /\ Len(expects) >= 2 /\ ~AllAny(expects[1]) /\ AllAny(expects[2])

(***************************************************************************)
(* C3: a StateTest is returned for a triple iff a retained expectation     *)
(* admits it; the triples no expectation admits add nothing, and           *)
(* load_yaml returns Ok all the same.                                      *)
(***************************************************************************)
C3_EmittedIffAdmitted ==
    pc = "done" =>
        /\ ret.res = "Ok"
        /\ \A t \in Triples : (Emitted(doc[1].name, t) # {}) <=> (Admitting(t) # {})
        /\ Len(ret.tests) = Cardinality({t \in Triples : Admitting(t) # {}})

\* Some triple is admitted and some is not, with expectations retained.
C3_Witness ==
    /\ Returned
    /\ expects # <<>>
    /\ \E t \in Triples : Admitting(t) = {}
    /\ \E t \in Triples : Admitting(t) # {}

(***************************************************************************)
(* C4: a labelled calldata variant is admitted by a data selector set iff  *)
(* the set holds match-any or match-label of its label, whatever indexes   *)
(* the set holds; an unlabelled one iff the set holds match-any or         *)
(* match-index of its index, never by a label; gas and value are admitted  *)
(* by index only.                                                          *)
(***************************************************************************)
C4_AdmissionByLabelOrIndex ==
    pc = "expand" =>
        \A p \in 1..Len(expects) : \A t \in Triples :
            Admits(expects[p], data_s[t[1] + 1], t[1], t[2], t[3])
              <=> /\ IF data_s[t[1] + 1].label.some
                     THEN \/ HoldsAny(expects[p].data_refs)
                          \/ HoldsLabel(expects[p].data_refs, data_s[t[1] + 1].label.v)
                     ELSE \/ HoldsAny(expects[p].data_refs)
                          \/ HoldsIndex(expects[p].data_refs, t[1])
                  /\ HoldsAny(expects[p].gas_refs) \/ HoldsIndex(expects[p].gas_refs, t[2])
                  /\ HoldsAny(expects[p].value_refs) \/ HoldsIndex(expects[p].value_refs, t[3])

\* Variant 1 is labelled data1 and variant 2 data2: a selector set holding
\* index 1 but not its label does not admit variant 1, and one holding the
\* label data2 but not index 2 admits variant 2.
C4_Witness ==
    /\ pc = "expand"
    /\ Len(expects) = 2
    /\ data_s[2].label = Some(Data1) /\ data_s[3].label = Some(Data2)
    /\ expects[1].data_refs = <<RefIndex(1)>>
    /\ ~Admits(expects[1], data_s[2], 1, 0, 0)
    /\ expects[2].data_refs = <<RefLabel(Data2)>>
    /\ Admits(expects[2], data_s[3], 2, 0, 0)
    /\ ~Admits(expects[2], data_s[1], 0, 0, 0)

(***************************************************************************)
(* C9: the range string "lo-hi" and the list [lo, .., hi] parse to         *)
(* selector sets that admit the same indexes and labels, and so do the     *)
(* integer -1 and an absent field, which admit every index and label.      *)
(***************************************************************************)
SameAdmission(r1, r2) ==
    /\ \A n \in 0..(MaxRef + 1) : contains_index(r1, n) <=> contains_index(r2, n)
    /\ \A l \in {Data1, Data2} : contains_label(r1, l) <=> contains_label(r2, l)

AdmitsAll(r) ==
    /\ \A n \in 0..(MaxRef + 1) : contains_index(r, n)
    /\ \A l \in {Data1, Data2} : contains_label(r, l)

DataSelector(p) == doc[1].expect[p].indexes.data

C9_EquivalentSpellings ==
    (pc = "done" /\ Len(doc[1].expect) = 2) =>
        /\ \A lo \in 0..MaxRef : \A hi \in 0..MaxRef :
              (/\ DataSelector(1) = YStr(RangeStr(lo, hi))
               /\ DataSelector(2) = YArr(IndexList(lo, hi)))
              => /\ ret.res = "Ok"
                 /\ SameAdmission(expects[1].data_refs, expects[2].data_refs)
                 /\ \A n \in 0..(MaxRef + 1) :
                       contains_index(expects[1].data_refs, n) <=> (lo <= n /\ n <= hi)
        /\ (DataSelector(1) = YInt(-1) /\ DataSelector(2) = BadValue)
              => /\ ret.res = "Ok"
                 /\ SameAdmission(expects[1].data_refs, expects[2].data_refs)
                 /\ AdmitsAll(expects[1].data_refs)

\* The range "1-2" and the list [1, 2] were both parsed and retained.
C9_Witness ==
    /\ Returned
    /\ Len(doc[1].expect) = 2
    /\ DataSelector(1) = YStr(RangeStr(1, 2))
    /\ DataSelector(2) = YArr(IndexList(1, 2))
    /\ Len(expects) = 2
    /\ contains_index(expects[1].data_refs, 2)

(***************************************************************************)
(* C10: parse_refs maps -1 to match-any, another integer n to              *)
(* match-index(n), a string with a :label tag to match-label and a string  *)
(* lo-hi to the indexes lo..hi; an element of any other shape makes        *)
(* load_yaml return an error.                                              *)
(***************************************************************************)
LabelStrings == {YStr(LabelData1), YStr(LabelData2), YStr(LabelledData1)}
LabelOf(yaml) == IF yaml = YStr(LabelData2) THEN Data2 ELSE Data1

C10_ElementMapping ==
    (pc = "done" /\ Len(doc[1].expect) = 1) =>
        LET yaml == DataSelector(1)
        IN  CASE yaml = YInt(-1) ->
                    ret.res = "Ok" /\ expects[1].data_refs = <<RefAny>>
              [] is_int(yaml) /\ yaml # YInt(-1) ->
                    ret.res = "Ok" /\ expects[1].data_refs = <<RefIndex(yaml.i)>>
              [] yaml \in LabelStrings ->
                    ret.res = "Ok" /\ expects[1].data_refs = <<RefLabel(LabelOf(yaml))>>
              [] yaml \in RangeYamls ->
                    /\ ret.res = "Ok"
                    /\ \A n \in 0..(MaxRef + 1) :
                          HoldsIndex(expects[1].data_refs, n)
                            <=> \E lo \in 0..n : \E hi \in n..MaxRef : yaml = YStr(RangeStr(lo, hi))
              [] is_badvalue(yaml) \/ is_array(yaml) -> TRUE
              [] OTHER -> ret.res = "Err"

(***************************************************************************)
(* C5: the TEMPLATE fixture arith returns exactly 8 StateTests;            *)
(* arith_d1(data1)_g1_v1 is bound to the first expectation,                *)
(* arith_d0_g1_v0 to the second, arith_d0_g0_v1 to the third and           *)
(* arith_d0_g0_v0 to the fourth.  As claimed, the four other combinations  *)
(* are all bound to the fourth; as amended, d0_g1_v1 and d1(data1)_g1_v0   *)
(* are bound to the second, d1(data1)_g0_v1 to the third and only          *)
(* d1(data1)_g0_v0 to the fourth.                                          *)
(***************************************************************************)
TemplateLoaded ==
    /\ pc = "done"
    /\ doc \in {TemplateDoc(FALSE), TemplateDoc(TRUE)}

\* The balance the result of the one StateTest returned under the id asks of
\* the recipient, "" when there is not just one.
ResultOf(id) ==
    LET ks == {k \in 1..Len(ret.tests) : ret.tests[k].id = id}
    IN  IF Cardinality(ks) = 1
        THEN ToString(ret.tests[CHOOSE k \in ks : TRUE].result[ToAddress].balance.v)
        ELSE ""

Balance10 == "10"
Balance20 == "20"
Balance30 == "30"
BalanceCatchAll == "1000001"

BoundAsTested ==
    /\ ret.res = "Ok"
    /\ Len(ret.tests) = 8
    /\ ResultOf("arith_d1(data1)_g1_v1") = Balance10
    /\ ResultOf("arith_d0_g1_v0") = Balance20
    /\ ResultOf("arith_d0_g0_v1") = Balance30
    /\ ResultOf("arith_d0_g0_v0") = BalanceCatchAll

C5_Original ==
    TemplateLoaded =>
        /\ BoundAsTested
        /\ ResultOf("arith_d0_g1_v1") = BalanceCatchAll
        /\ ResultOf("arith_d1(data1)_g0_v0") = BalanceCatchAll
        /\ ResultOf("arith_d1(data1)_g0_v1") = BalanceCatchAll
        /\ ResultOf("arith_d1(data1)_g1_v0") = BalanceCatchAll

C5_ArithCombinations ==
    TemplateLoaded =>
        /\ BoundAsTested
        /\ ResultOf("arith_d0_g1_v1") = Balance20
        /\ ResultOf("arith_d1(data1)_g0_v0") = BalanceCatchAll
        /\ ResultOf("arith_d1(data1)_g0_v1") = Balance30
        /\ ResultOf("arith_d1(data1)_g1_v0") = Balance20

\* The TEMPLATE of Template::default() was loaded and its 8 StateTests returned.
C5_Witness ==
    /\ pc = "done"
    /\ doc = TemplateDoc(FALSE)
    /\ ret.res = "Ok"
    /\ Len(ret.tests) = 8
    /\ ret.tests[8].id = "arith_d1(data1)_g1_v1"

(***************************************************************************)
(* C6: no two StateTests returned by one load_yaml call have the same id,  *)
(* whatever the fixture names and the calldata labels.                     *)
(***************************************************************************)
C6_UniqueIds ==
    Returned =>
        \A j \in 1..Len(ret.tests) : \A k \in 1..Len(ret.tests) :
            j # k => ret.tests[j].id # ret.tests[k].id

(***************************************************************************)
(* C7: the gas_price of every returned StateTest is the parsed gasPrice    *)
(* when the field is there, and otherwise                                  *)
(* min(maxFeePerGas, maxPriorityFeePerGas + base fee), the sum not         *)
(* wrapping, the base fee being currentBaseFee or the default.             *)
(***************************************************************************)
Tx == doc[1].transaction

FieldValue(yaml) == IF is_int(yaml) THEN yaml.i ELSE DecimalValue(yaml.s)
WellFormed(yaml) == is_int(yaml) \/ yaml = YStr(GasPrice10)

BaseFee ==
    IF is_badvalue(doc[1].env.currentBaseFee) THEN DEFAULT_BASE_FEE
    ELSE FieldValue(doc[1].env.currentBaseFee)

BaseFeeKnown ==
    is_badvalue(doc[1].env.currentBaseFee) \/ WellFormed(doc[1].env.currentBaseFee)

C7_GasPrice ==
    Returned =>
        \A k \in 1..Len(ret.tests) :
            /\ WellFormed(Tx.gasPrice) => ret.tests[k].gas_price = FieldValue(Tx.gasPrice)
            /\ (is_badvalue(Tx.gasPrice) /\ BaseFeeKnown)
               => LET sum == FieldValue(Tx.maxPriorityFeePerGas) + BaseFee
                  IN  /\ sum < U256Modulus
                      /\ ret.tests[k].gas_price = Min(FieldValue(Tx.maxFeePerGas), sum)

\* No gasPrice and no currentBaseFee: the price is the priority fee plus the
\* default base fee, below maxFeePerGas.
C7_Witness ==
    /\ Returned
    /\ Len(ret.tests) = 1
    /\ is_badvalue(Tx.gasPrice)
    /\ is_badvalue(doc[1].env.currentBaseFee)
    /\ Tx.maxPriorityFeePerGas = YInt(1)
    /\ ret.tests[1].gas_price = 1 + DEFAULT_BASE_FEE
    /\ Tx.maxFeePerGas = YInt(U256Modulus - 1)

(***************************************************************************)
(* C8: with no parseable gasPrice and maxFeePerGas or maxPriorityFeePerGas *)
(* missing, load_yaml returns an error to its caller.                      *)
(***************************************************************************)
C8_MissingFeeFieldsIsErr ==
    (/\ pc = "done"
     /\ parse_u256(Tx.gasPrice).res # "Ok"
     /\ is_badvalue(Tx.maxFeePerGas) \/ is_badvalue(Tx.maxPriorityFeePerGas))
    => ret.res = "Err"


(***************************************************************************)
(* C11: no returned StateTest is bound to an expectation whose network     *)
(* list the active-network predicate does not admit; the retained          *)
(* expectations are the admitted ones in document order; and the           *)
(* StateTest of a triple is bound to the first admitted expectation that   *)
(* admits the triple, whatever discarded expectations stand before it.     *)
(* The p-th expectation of the document asks the balance p of the          *)
(* recipient, which tells the expectations apart.                          *)
(***************************************************************************)
Position(result) == result[ToAddress].balance.v

NetworkAdmits(q) ==
    \E n \in 1..Len(doc[1].expect[q].network.a) :
        doc[1].expect[q].network.a[n].s \in AdmittedRanges

AdmittedPositions == {q \in 1..Len(doc[1].expect) : NetworkAdmits(q)}

C11_DiscardedNeverBound ==
    Returned =>
        /\ \A k \in 1..Len(ret.tests) : Position(ret.tests[k].result) \in AdmittedPositions
        /\ {Position(expects[p].result) : p \in 1..Len(expects)} = AdmittedPositions
        /\ \A p \in 1..Len(expects) : \A q \in 1..Len(expects) :
              p < q => Position(expects[p].result) < Position(expects[q].result)
        /\ \A t \in Triples : \A k \in Emitted(doc[1].name, t) :
              Position(ret.tests[k].result) = Position(expects[First(Admitting(t))].result)

\* A discarded match-any expectation stands first in the document, and a
\* StateTest is bound to an admitted expectation after it.
C11_Witness ==
    /\ Returned
    /\ Len(doc[1].expect) >= 2
    /\ ~NetworkAdmits(1)
    /\ doc[1].expect[1].indexes = [data |-> BadValue, gas |-> BadValue, value |-> BadValue]
    /\ \E k \in 1..Len(ret.tests) : Position(ret.tests[k].result) >= 2

(***************************************************************************)
(* C12: the exception flag of a returned StateTest is true iff the         *)
(* expectation it is bound to has an expectException mapping one key of    *)
(* which, taken alone as a fork range, the active-network predicate        *)
(* admits; it is false when the mapping is absent, empty or holds no       *)
(* admitted key, whatever the network list and the selectors of the        *)
(* expectation are.                                                        *)
(***************************************************************************)
ExceptionAdmits(q) ==
    LET x == doc[1].expect[q].expectException
    IN  /\ x.y = "Hash"
        /\ \E n \in 1..Len(x.h) : x.h[n].s \in AdmittedRanges

C12_ExceptionFlag ==
    Returned =>
        \A k \in 1..Len(ret.tests) :
            ret.tests[k].exception = ExceptionAdmits(Position(ret.tests[k].result))

\* One StateTest is flagged by a mapping whose first key is not admitted and
\* whose second is, under a network list of two ranges; another is not
\* flagged though its mapping holds a key.
C12_Witness ==
    /\ Returned
    /\ \E k \in 1..Len(ret.tests) :
          /\ ret.tests[k].exception
          /\ doc[1].expect[Position(ret.tests[k].result)].expectException = ExceptionMixed
          /\ doc[1].expect[Position(ret.tests[k].result)].network = NetworkMixed
    /\ \E k \in 1..Len(ret.tests) :
          /\ ~ret.tests[k].exception
          /\ doc[1].expect[Position(ret.tests[k].result)].expectException = ExceptionNotAdmitted

(***************************************************************************)
(* C13: a non-negative integer account key n is, in the pre-state, the     *)
(* address whose hex digits are the decimal digits of n (10 -> ...10); in  *)
(* a result it is the address whose number is n (10 -> ...0a) exactly      *)
(* when that address is a key of the pre-state of the fixture, and the     *)
(* address of the decimal digits of n otherwise.                           *)
(***************************************************************************)
\* The number a sequence of hex digits stands for.
RECURSIVE HexValue(_)
HexValue(digits) ==
    IF digits = <<>> THEN 0
    ELSE 16 * HexValue(SubSeq(digits, 1, Len(digits) - 1))
         + ((CHOOSE p \in 1..16 : HexDigits[p] = digits[Len(digits)]) - 1)

\* The number its digits spell when they are read as decimal digits, -1
\* when one of them is no decimal digit.
ReadAsDecimal(digits) ==
    IF \A p \in 1..Len(digits) : IsDigit(digits[p]) THEN DecimalValue(digits) ELSE -1

NumberOf(address) == HexValue(Chars(address))
DecimalOf(address) == ReadAsDecimal(Chars(address))

PreKeys == {doc[1].pre.kv[p][1] : p \in 1..Len(doc[1].pre.kv)}
ResultKey == doc[1].expect[1].result.kv[1][1]

C13_IntegerAccountKeys ==
    Returned =>
        \A k \in 1..Len(ret.tests) :
            /\ \A key \in PreKeys :
                  is_int(key) => \E a \in DOMAIN ret.tests[k].pre : DecimalOf(a) = key.i
            /\ \A a \in DOMAIN ret.tests[k].pre :
                  \/ \E key \in PreKeys : is_int(key) /\ DecimalOf(a) = key.i
                  \/ \E key \in PreKeys : ~is_int(key) /\ a = key.t
            /\ Cardinality(DOMAIN ret.tests[k].result) = 1
            /\ \A a \in DOMAIN ret.tests[k].result :
                  IF \E b \in DOMAIN ret.tests[k].pre : NumberOf(b) = ResultKey.i
                  THEN NumberOf(a) = ResultKey.i
                  ELSE DecimalOf(a) = ResultKey.i

\* The result key 10 is the address ten with the address ten in the
\* pre-state, beside the pre-state key 10, which is the address sixteen.
C13_Witness ==
    /\ Returned
    /\ Len(ret.tests) = 1
    /\ ResultKey = YInt(10)
    /\ PreKeys = {YInt(10), YText(AddressTen)}
    /\ DOMAIN ret.tests[1].result = {AddressTen}
    /\ \E a \in DOMAIN ret.tests[1].pre : NumberOf(a) = 16

(***************************************************************************)
(* C14: when a field of the fixture is present and does not parse, a       *)
(* gasPrice, maxFeePerGas, maxPriorityFeePerGas or currentBaseFee          *)
(* included, load_yaml returns an error and no StateTest; the field is     *)
(* never replaced by a default or by the value of another field.           *)
(***************************************************************************)
Malformed(yaml) == ~is_badvalue(yaml) /\ parse_u256(yaml).res # "Ok"

C14_MalformedFieldIsErr ==
    (/\ pc = "done"
     /\ \/ Malformed(doc[1].env.currentBaseFee)
        \/ Malformed(Tx.gasPrice)
        \/ Malformed(Tx.maxFeePerGas)
        \/ Malformed(Tx.maxPriorityFeePerGas))
    => ret.res = "Err"

(***************************************************************************)
(* C15: an expect entry with a selector or a result account that does not  *)
(* parse, or with a network field that is missing or no list, makes        *)
(* load_yaml return an error for the whole document, whether its network   *)
(* list is admitted or not; the entry is never skipped.                    *)
(***************************************************************************)
C15_MalformedEntryIsErr ==
    (/\ pc = "done"
     /\ \E p \in 1..Len(doc[1].expect) : doc[1].expect[p] \in MalformedEntries)
    => ret.res = "Err"

(***************************************************************************)
(* C16: decompose_tags maps each tag of its string to the tag's trailing   *)
(* text: all the remaining text for :yul and :solidity, the text up to the *)
(* next ':' or the end of the string for any other tag; a string that does *)
(* not start with ':' gives the empty tag with the whole text, the empty   *)
(* string the empty tag with an empty value.  TagsOf spells this reading,  *)
(* the white space around the string and around each value aside; a tag    *)
(* that ends the string has the empty trailing text.                       *)
(***************************************************************************)
RECURSIVE TagsFrom(_, _)
TagsFrom(text, tags) ==
    IF text = <<>> THEN tags
    ELSE IF Head(text) # ":" THEN Insert(tags, <<>>, Trim(text))
    ELSE LET end == Find(text, {" ", "\n"})
             tag == IF end = 0 THEN text ELSE SubSeq(text, 1, end - 1)
             trailing == IF end = 0 THEN <<>> ELSE SubSeq(text, end + 1, Len(text))
             colon == Find(trailing, {":"})
             value == IF tag \in {YulTag, SolidityTag} \/ colon = 0
                      THEN trailing
                      ELSE SubSeq(trailing, 1, colon - 1)
         IN  TagsFrom(SubSeq(trailing, Len(value) + 1, Len(trailing)),
                      Insert(tags, tag, Trim(value)))

TagsOf(expr) ==
    IF Trim(expr) = <<>> THEN Insert(EmptyMap, <<>>, <<>>)
    ELSE TagsFrom(Trim(expr), EmptyMap)

C16_DecomposeTags == pc = "done" => ret = Ok(TagsOf(doc))

(***************************************************************************)
(* C17: the list load_yaml returns is ordered: the StateTests of a fixture *)
(* stand before those of every later fixture of the document, and within a *)
(* fixture in the lexicographic order of (data index, gas index, value     *)
(* index); so the last StateTest of a fixture whose every triple is        *)
(* admitted is that of its highest data, gas and value indexes.            *)
(***************************************************************************)
TriplesOf(f) ==
    {<<f, d, g, v>> : d \in 0..(Len(doc[f].transaction.data.a) - 1),
                      g \in 0..(Len(doc[f].transaction.gasLimit.a) - 1),
                      v \in 0..(Len(doc[f].transaction.value.a) - 1)}

AllTriples == UNION {TriplesOf(f) : f \in 1..Len(doc)}

UnlabelledId(k) ==
    Join(doc[k[1]].name) \o "_d" \o ToString(k[2]) \o "_g" \o ToString(k[3])
        \o "_v" \o ToString(k[4])

IsTripleAt(p, k) == ret.tests[p].id = UnlabelledId(k)
TripleAt(p) == CHOOSE k \in AllTriples : IsTripleAt(p, k)

RECURSIVE Before(_, _)
Before(j, k) ==
    /\ j # <<>>
    /\ \/ Head(j) < Head(k)
       \/ Head(j) = Head(k) /\ Before(Tail(j), Tail(k))

TestsOfFixture(f) == {p \in 1..Len(ret.tests) : TripleAt(p)[1] = f}
FullyAdmitted(f) == Cardinality(TestsOfFixture(f)) = Cardinality(TriplesOf(f))
LastTriple(f) ==
    <<f, Len(doc[f].transaction.data.a) - 1, Len(doc[f].transaction.gasLimit.a) - 1,
      Len(doc[f].transaction.value.a) - 1>>

C17_OutputOrdered ==
    (pc = "done" /\ ret.res = "Ok")
    => /\ \A p \in 1..Len(ret.tests) : \E k \in AllTriples : IsTripleAt(p, k)
       /\ \A p \in 1..Len(ret.tests) : \A q \in 1..Len(ret.tests) :
              p < q => Before(TripleAt(p), TripleAt(q))
       /\ \A f \in 1..Len(doc) :
              FullyAdmitted(f)
              => \E p \in TestsOfFixture(f) :
                    /\ TripleAt(p) = LastTriple(f)
                    /\ \A q \in TestsOfFixture(f) : q <= p

\* Fixture b stands before fixture a; one of them has more than one variant
\* of each kind, all admitted, the other loses some of its triples.
C17_Witness ==
    /\ pc = "done" /\ ret.res = "Ok"
    /\ Len(doc) = 2 /\ doc[1].name = <<"b">>
    /\ \E f \in 1..2 : \E h \in 1..2 :
          /\ FullyAdmitted(f)
          /\ LastTriple(f)[2] > 0 /\ LastTriple(f)[3] > 0 /\ LastTriple(f)[4] > 0
          /\ ~FullyAdmitted(h)
          /\ Cardinality(TestsOfFixture(h)) > 1

(***************************************************************************)
(* C18: a selector field that is present and resolves to the empty         *)
(* selector set, an empty list or a range string lo-hi with lo > hi, is no *)
(* error and admits no index and no label: the expect entry that carries   *)
(* it is bound to no triple.  An absent field admits every triple.         *)
(***************************************************************************)
EmptySelectors ==
    {YArr(<<>>)}
    \cup UNION {{YStr(RangeStr(lo, hi)) : hi \in 0..(lo - 1)} : lo \in 1..MaxRef}

SelectorsOf(q) ==
    {doc[1].expect[q].indexes.data, doc[1].expect[q].indexes.gas,
     doc[1].expect[q].indexes.value}

EntriesOfEmptySelector ==
    {q \in 1..Len(doc[1].expect) : SelectorsOf(q) \cap EmptySelectors # {}}

C18_EmptySelectorAdmitsNothing ==
    (/\ pc = "done"
     /\ \A q \in 1..Len(doc[1].expect) : SelectorsOf(q) \subseteq WellFormedRefYamls)
    => /\ ret.res = "Ok"
       /\ \A q \in EntriesOfEmptySelector :
             /\ <<>> \in {expects[q].data_refs, expects[q].gas_refs, expects[q].value_refs}
             /\ \A n \in 0..(MaxRef + 1) : \A l \in {Data1, Data2} :
                   \/ ~contains_index(expects[q].data_refs, n)
                      /\ ~contains_label(expects[q].data_refs, l)
                   \/ ~contains_index(expects[q].gas_refs, n)
                   \/ ~contains_index(expects[q].value_refs, n)
             /\ \A k \in 1..Len(ret.tests) : Position(ret.tests[k].result) # q
       /\ \A q \in 1..Len(doc[1].expect) :
             (SelectorsOf(q) = {BadValue} /\ (\A r \in 1..(q - 1) : r \in EntriesOfEmptySelector))
             => /\ Len(ret.tests) = Cardinality(Triples)
                /\ \A k \in 1..Len(ret.tests) : Position(ret.tests[k].result) = q

\* The first entry has the empty list as its data selector, the second no
\* selector: every triple is bound to the second.
C18_Witness ==
    /\ Returned
    /\ Len(doc[1].expect) = 2
    /\ DataSelector(1) = YArr(<<>>)
    /\ DataSelector(2) = BadValue
    /\ expects[1].data_refs = <<>>
    /\ Len(ret.tests) = Cardinality(Triples)
    /\ Len(ret.tests) > 1
    /\ \A k \in 1..Len(ret.tests) : Position(ret.tests[k].result) = 2

=============================================================================
